---- MODULE Spec2Model ----
(***************************************************************************)
(* The "Now Playing" lower-third overlay of CasparGFX/now_playing.html:    *)
(* the three commands play / update / stop and every setTimeout callback   *)
(* they register, over the part of the DOM the script reads and writes.    *)
(*                                                                         *)
(* Time is in milliseconds.  A pending setTimeout is a record holding the  *)
(* time that remains until it is due; the event loop runs the pending      *)
(* timer that is due first (the lower handle first when two are due at the *)
(* same instant) and every other timer gets that much closer.  A command   *)
(* may arrive between any two callbacks.                                   *)
(***************************************************************************)
EXTENDS Integers, Sequences, FiniteSets, TLC

VARIABLES
    autoHideTimeout,     \* line 126: handle of the tracked auto-hide timer
    delayedStartTimeout, \* line 127: handle of the tracked entrance timer
    timers,              \* the browser's pending setTimeout entries, in firing order
    nextId,              \* the handle the next setTimeout returns
    boxWidth,            \* lowerThird.style.width (inline style)
    boxBottom,           \* lowerThird bottom, px
    logoBottom,          \* logo bottom, px
    logoTransform,       \* logo.style.transform
    shimmer,             \* logo.classList contains 'shimmer-effect'
    textOpacity,         \* textContainer opacity
    fields,              \* the three text elements' children
    glyphPx,             \* rendered width of one character (the font's)
    clock,               \* ms since the last external command
    history,             \* the external commands issued so far
    observed             \* per reveal pass under way, the box width after its latest character

vars == << autoHideTimeout, delayedStartTimeout, timers, nextId, boxWidth,
           boxBottom, logoBottom, logoTransform, shimmer, textOpacity,
           fields, glyphPx, clock, history, observed >>

-----------------------------------------------------------------------------
(* Bounds of the model *)

MaxCmds == 2
Quantum == 1000
LongLen == 101
MaxGlyph == 120
MaxShort == 3

-----------------------------------------------------------------------------
(* Delays and sizes written in the script *)

EntranceDelay == 1000
ExpandDelay == 500
RevealDelay == 2000
ShimmerDuration == 1300
HoldDuration == 12000
BaseSpeed == 50
LongThreshold == 100
SettleDelay == 500
BaseWidth == 1000
PaddingExtra == 400
MaxWidth == 1600
CollapseDelay == 500
LogoUpDelay == 1200
BoxOffDelay == 3500
LogoOffDelay == 1800
OffStageBottom == -200
OnStageBottom == 40
LogoCssBottom == -200
LogoResetBottom == -100
LogoStageBottom == -80
LogoHiddenBottom == -350

-----------------------------------------------------------------------------
(* Strings are sequences of one-character strings *)

Str(n) == [i \in 1..n |-> "x"]

NowPlayingLabel == << "N", "o", "w", " ", "P", "l", "a", "y", "i", "n", "g", ":" >>
DefaultArtist == << "A", "r", "t", "i", "s", "t", " ", "N", "a", "m", "e" >>
DefaultSong == << "S", "o", "n", "g", " ", "T", "i", "t", "l", "e" >>

FieldIds == { "now-playing-text", "artist-text", "song-text" }

(* A property of the request object: undefined when the caller left it out *)
Undefined == [has |-> FALSE, str |-> << >>]
Given(s) == [has |-> TRUE, str |-> s]

EmptyData == [artist |-> Undefined, song |-> Undefined]

(* play(data = {}): the default parameter *)
DefaultArg(req) == IF req.given THEN [artist |-> req.artist, song |-> req.song] ELSE EmptyData

(* Variant: only undefined replaced by the default (data.artist ?? 'Artist Name') *)
OrDefaultNullish(opt, def) == IF opt.has THEN opt.str ELSE def

(* data.artist || 'Artist Name': undefined and '' are falsy *)
OrDefault(opt, def) == IF opt.has /\ opt.str # << >> THEN opt.str ELSE def

(* span.innerHTML = (char === ' ') ? '&nbsp;' : char *)
SpanHTML(char) == IF char = " " THEN "&nbsp;" ELSE char

(* Variant: a text of exactly the threshold length already counts as long *)
SpeedFromThreshold(len, baseSpeed) == IF len >= LongThreshold THEN baseSpeed \div 2 ELSE baseSpeed

(* Smart speed adjustment: baseSpeed / 2 is exact for the even base speed the script passes *)
Speed(len, baseSpeed) == IF len > LongThreshold THEN baseSpeed \div 2 ELSE baseSpeed

-----------------------------------------------------------------------------
(* lowerThird.style.width: '' until the script writes it, then '0' or n+'px' *)

NoInlineWidth == [n |-> 0, text |-> ""]
ZeroWidth == [n |-> 0, text |-> "0"]
Px(n) == [n |-> n, text |-> "px"]

NaN == -1

(* parseInt of the inline width: NaN for '', the leading digits otherwise *)
ParseInt(w) == IF w.text = "" THEN NaN ELSE w.n

(* a > b in JavaScript: false when either side is NaN *)
Greater(a, b) == a # NaN /\ b # NaN /\ a > b

(* The width the box is laid out with: the stylesheet's width: 0 applies while no inline width is set *)
RenderedWidth(w) == w.n

(* Variant: the lower limit of 1000 left out *)
NewWidthNoFloor(textWidth) ==
    LET newWidth == textWidth + PaddingExtra
    IN  IF newWidth > MaxWidth THEN MaxWidth ELSE newWidth

(* Variant: the upper limit of 1600 left out *)
NewWidthUncapped(textWidth) ==
    LET newWidth == textWidth + PaddingExtra
    IN  IF newWidth < BaseWidth THEN BaseWidth ELSE newWidth

(* newWidth of the per-letter width check *)
NewWidth(textWidth) ==
    LET newWidth == textWidth + PaddingExtra
        atLeast == IF newWidth < BaseWidth THEN BaseWidth ELSE newWidth
    IN  IF atLeast > MaxWidth THEN MaxWidth ELSE atLeast

-----------------------------------------------------------------------------
(* The DOM text elements *)

EmptyField == [pass |-> 0, spans |-> << >>]

MaxOf(S) == CHOOSE m \in S : \A x \in S : x <= m

(* textContainer.scrollWidth: the widest of the three lines; spans take their *)
(* room from the moment they are appended, whatever their opacity             *)
ScrollWidth(fs, glyph) == glyph * MaxOf({ Len(fs[f].spans) : f \in FieldIds })

-----------------------------------------------------------------------------
(* setTimeout / clearTimeout *)

Timer(id, delay, kind, gen, field, idx, data) ==
    [id |-> id, rem |-> delay, delay |-> delay, kind |-> kind, gen |-> gen,
     field |-> field, idx |-> idx, data |-> data]

Pending(T) == { T[i] : i \in 1..Len(T) }

(* Variant: clearTimeout without effect *)
NeverCleared(t, handle) == FALSE

IsCleared(t, handle) == t.id = handle

ClearTimeout(handle, T) == SelectSeq(T, LAMBDA t : ~IsCleared(t, handle))

(* Variant: clearTimeout(autoHideTimeout) left out *)
ClearTrackedEntranceOnly(T) == ClearTimeout(delayedStartTimeout, T)

(* Variant: clearTimeout(delayedStartTimeout) left out *)
ClearTrackedAutoHideOnly(T) == ClearTimeout(autoHideTimeout, T)

(* clearTimeout(autoHideTimeout); clearTimeout(delayedStartTimeout); *)
ClearTracked(T) == ClearTimeout(delayedStartTimeout, ClearTimeout(autoHideTimeout, T))

(* setTimeout: the new timer runs after every pending one due no later than it *)
SetTimeout(T, t) ==
    LET k == Cardinality({ i \in 1..Len(T) : T[i].rem <= t.rem })
    IN  SubSeq(T, 1, k) \o << t >> \o SubSeq(T, k + 1, Len(T))

(* Several setTimeout calls in a row, new[1] first: where each new timer and *)
(* each pending one ends up in the firing order                             *)
SetTimeouts(T, new) ==
    LET m == Len(new)
        pos == [j \in 1..m |->
                   Cardinality({ i \in 1..Len(T) : T[i].rem <= new[j].rem })
                   + Cardinality({ k \in 1..m : new[k].rem < new[j].rem
                                                 \/ (new[k].rem = new[j].rem /\ k <= j) })]
    IN  [p \in 1..(Len(T) + m) |->
            IF \E j \in 1..m : pos[j] = p
            THEN new[CHOOSE j \in 1..m : pos[j] = p]
            ELSE T[p - Cardinality({ j \in 1..m : pos[j] < p })]]

(* The pending timer the event loop runs next *)
Earliest(T) == Head(T)

(* The other timers once time has moved on by ms *)
Elapse(T, ms) == [i \in 1..Len(T) |-> [T[i] EXCEPT !.rem = @ - ms]]

Due(kind) == timers # << >> /\ Earliest(timers).kind = kind

-----------------------------------------------------------------------------
(* createTypewriter(element, text, baseSpeed, callback): the element's new  *)
(* children, and the timers it registers (one per character, then the       *)
(* callback's), the first of them with handle firstId                       *)

TypewriterSpans(text) == [i \in 1..Len(text) |-> [html |-> SpanHTML(text[i]), opacity |-> 0]]

(* Variant: the first character delayed by one interval *)
TypewriterTimersFromOne(field, text, baseSpeed, gen, data, firstId) ==
    LET speed == Speed(Len(text), baseSpeed)
        n == Len(text)
    IN  [i \in 1..(n + 1) |->
            IF i <= n
            THEN Timer(firstId + i - 1, i * speed, "char", gen, field, i, EmptyData)
            ELSE Timer(firstId + n, n * speed + SettleDelay, "done", gen, field, 0, data)]

(* Variant: the callback handed to setTimeout with no delay *)
TypewriterTimersEager(field, text, baseSpeed, gen, data, firstId) ==
    LET speed == Speed(Len(text), baseSpeed)
        n == Len(text)
    IN  [i \in 1..(n + 1) |->
            IF i <= n
            THEN Timer(firstId + i - 1, (i - 1) * speed, "char", gen, field, i, EmptyData)
            ELSE Timer(firstId + n, 0, "done", gen, field, 0, data)]

TypewriterTimers(field, text, baseSpeed, gen, data, firstId) ==
    LET speed == Speed(Len(text), baseSpeed)
        n == Len(text)
    IN  [i \in 1..(n + 1) |->
            IF i <= n
            THEN Timer(firstId + i - 1, (i - 1) * speed, "char", gen, field, i, EmptyData)
            ELSE Timer(firstId + n, n * speed + SettleDelay, "done", gen, field, 0, data)]

-----------------------------------------------------------------------------
(* The page as loaded: the stylesheet's values, no timer, handles undefined *)
Loaded(glyphs) ==
    /\ autoHideTimeout = 0
    /\ delayedStartTimeout = 0
    /\ timers = << >>
    /\ nextId = 1
    /\ boxWidth = NoInlineWidth
    /\ boxBottom = OffStageBottom
    /\ logoBottom = LogoCssBottom
    /\ logoTransform = "scale(1) rotate(0deg)"
    /\ shimmer = FALSE
    /\ textOpacity = 0
    /\ fields = [f \in FieldIds |-> EmptyField]
    /\ glyphPx \in glyphs
    /\ clock = 0
    /\ history = << >>
    /\ observed = {}

Init == Loaded({ 60, 110 })


-----------------------------------------------------------------------------
(* The requests the commands are called with *)

NoArg == [given |-> FALSE, artist |-> Undefined, song |-> Undefined]
Request(a, s) == [given |-> TRUE, artist |-> a, song |-> s]

ShortRequests == { Request(Given(<< "A" >>), Given(<< "B" >>)),
                   Request(Given(<< "C" >>), Given(<< "D", " " >>)) }

CycleTexts == { Undefined, Given(<< >>), Given(<< " " >>), Given(Str(LongThreshold)), Given(Str(LongLen)) }

CycleRequests == { NoArg } \cup { Request(a, s) : a \in CycleTexts, s \in CycleTexts }

-----------------------------------------------------------------------------
(* What is on screen, and the record kept of each external command: what   *)
(* it did and was called with, and whether it was called between a cycle's  *)
(* entrance and its auto-hide (live), with no timer pending (idle), at rest *)
(* (rest).  Of the latest command it is also kept whether it came in        *)
(* through update (alias).                                                  *)

Visual ==
    [width |-> RenderedWidth(boxWidth), bottom |-> boxBottom, logoBottom |-> logoBottom,
     logoTransform |-> logoTransform, textOpacity |-> textOpacity, fields |-> fields]

Command(op, req) ==
    [op |-> op, req |-> req, alias |-> FALSE,
     live |-> \E t \in Pending(timers) : t.kind = "autoHide",
     idle |-> timers = << >>,
     rest |-> RenderedWidth(boxWidth) = 0 /\ boxBottom = OffStageBottom /\ textOpacity = 0]

(* The commands issued once c has been called *)
Issued(c) == Append([i \in 1..Len(history) |-> [history[i] EXCEPT !.alias = FALSE]], c)

-----------------------------------------------------------------------------
(* play(data): lines 175-228, up to the registration of the entrance timer *)

PlayBody(req) ==
    /\ timers' = SetTimeout(ClearTracked(timers),
                            Timer(nextId, EntranceDelay, "entrance", Len(history) + 1, "", 0, DefaultArg(req)))
    /\ delayedStartTimeout' = nextId
    /\ nextId' = nextId + 1
    /\ fields' = [f \in FieldIds |-> EmptyField]
    /\ textOpacity' = 0
    /\ logoTransform' = "scale(1)"
    /\ boxWidth' = ZeroWidth
    /\ boxBottom' = OffStageBottom
    /\ logoBottom' = LogoResetBottom
    /\ UNCHANGED << autoHideTimeout, shimmer, glyphPx, observed >>

Play(req) ==
    /\ Len(history) < MaxCmds
    /\ history' = Issued(Command("play", req))
    /\ clock' = 0
    /\ PlayBody(req)

(* Variant: update calling play() without handing its argument on *)
ForwardedNothing(req) == [given |-> FALSE, artist |-> Undefined, song |-> Undefined]

(* update(data = {}) { play(data); }: what play is called with *)
Forwarded(req) ==
    LET data == DefaultArg(req)
    IN  [given |-> TRUE, artist |-> data.artist, song |-> data.song]

(* update(data): lines 259-261 *)
Update(req) ==
    /\ Len(history) < MaxCmds
    /\ history' = Issued([Command("play", req) EXCEPT !.alias = TRUE])
    /\ clock' = 0
    /\ PlayBody(Forwarded(req))

(* Variant: the exit timers given the delays of the order they are written in *)
ExitTimersAsWritten(gen, firstId) ==
    << Timer(firstId, CollapseDelay, "exitCollapse", gen, "", 0, EmptyData),
       Timer(firstId + 1, LogoUpDelay, "exitLogoUp", gen, "", 0, EmptyData),
       Timer(firstId + 2, LogoOffDelay, "exitBoxOff", gen, "", 0, EmptyData),
       Timer(firstId + 3, BoxOffDelay, "exitLogoOff", gen, "", 0, EmptyData) >>

(* stop(): lines 230-257.  The four exit timers in the order they are registered *)
ExitTimers(gen, firstId) ==
    << Timer(firstId, CollapseDelay, "exitCollapse", gen, "", 0, EmptyData),
       Timer(firstId + 1, LogoUpDelay, "exitLogoUp", gen, "", 0, EmptyData),
       Timer(firstId + 2, BoxOffDelay, "exitBoxOff", gen, "", 0, EmptyData),
       Timer(firstId + 3, LogoOffDelay, "exitLogoOff", gen, "", 0, EmptyData) >>

StopBody(pending, gen) ==
    /\ timers' = SetTimeouts(ClearTracked(pending),
                             ExitTimers(gen, nextId))
    /\ nextId' = nextId + 4
    /\ textOpacity' = 0
    /\ UNCHANGED << autoHideTimeout, delayedStartTimeout, boxWidth, boxBottom, logoBottom,
                    logoTransform, shimmer, fields, glyphPx, observed >>

Stop ==
    /\ Len(history) < MaxCmds
    /\ history' = Issued(Command("stop", NoArg))
    /\ clock' = 0
    /\ StopBody(timers, Len(history) + 1)

-----------------------------------------------------------------------------
(* The timer callbacks.  Each runs when its timer is the next one due; the *)
(* timers left pending are then that much closer to their own due instant. *)

Advance(t) ==
    /\ clock' = clock + t.rem
    /\ UNCHANGED << glyphPx, history >>

Rest(t) == Elapse(Tail(timers), t.rem)

(* lines 193-227: the entrance callback *)
FireEntrance ==
    /\ Due("entrance")
    /\ LET t == Earliest(timers)
       IN  /\ Advance(t)
           /\ boxBottom' = OnStageBottom
           /\ logoBottom' = LogoStageBottom
           /\ logoTransform' = "scale(1)"
           /\ timers' = SetTimeouts(Rest(t),
                            << Timer(nextId, ExpandDelay, "expand", t.gen, "", 0, EmptyData),
                               Timer(nextId + 1, RevealDelay, "reveal", t.gen, "", 0, t.data),
                               Timer(nextId + 2, HoldDuration, "autoHide", t.gen, "", 0, EmptyData) >>)
           /\ autoHideTimeout' = nextId + 2
           /\ nextId' = nextId + 3
           /\ UNCHANGED << delayedStartTimeout, boxWidth, shimmer, textOpacity, fields, observed >>

(* lines 199-202 *)
FireExpand ==
    /\ Due("expand")
    /\ LET t == Earliest(timers)
       IN  /\ Advance(t)
           /\ boxWidth' = Px(BaseWidth)
           /\ logoTransform' = "scale(1.05) rotate(-360deg)"
           /\ timers' = Rest(t)
           /\ UNCHANGED << autoHideTimeout, delayedStartTimeout, nextId, boxBottom, logoBottom,
                           shimmer, textOpacity, fields, observed >>

(* lines 204-221: show the text container, start the label's typewriter, shimmer *)
FireReveal ==
    /\ Due("reveal")
    /\ LET t == Earliest(timers)
           n == Len(NowPlayingLabel)
       IN  /\ Advance(t)
           /\ textOpacity' = 1
           /\ fields' = [fields EXCEPT !["now-playing-text"] =
                             [pass |-> t.gen, spans |-> TypewriterSpans(NowPlayingLabel)]]
           /\ shimmer' = TRUE
           /\ timers' = SetTimeout(
                            SetTimeouts(Rest(t),
                                TypewriterTimers("now-playing-text", NowPlayingLabel, BaseSpeed,
                                                 t.gen, t.data, nextId)),
                            Timer(nextId + n + 1, ShimmerDuration, "shimmerClear", t.gen, "", 0, EmptyData))
           /\ nextId' = nextId + n + 2
           /\ UNCHANGED << autoHideTimeout, delayedStartTimeout, boxWidth, boxBottom, logoBottom,
                           logoTransform, observed >>

(* lines 151-167: one character's callback.  The span it holds is still a    *)
(* child of its element only while no later innerHTML = '' has replaced it.  *)
CharFields(t) ==
    IF fields[t.field].pass = t.gen
    THEN [fields EXCEPT ![t.field].spans[t.idx].opacity = 1]
    ELSE fields

CharWidth(t, fs) ==
    LET newWidth == NewWidth(ScrollWidth(fs, glyphPx))
    IN  IF Greater(newWidth, ParseInt(boxWidth)) THEN Px(newWidth) ELSE boxWidth

FireChar ==
    /\ Due("char")
    /\ LET t == Earliest(timers)
       IN  /\ Advance(t)
           /\ fields' = CharFields(t)
           /\ boxWidth' = CharWidth(t, CharFields(t))
           /\ timers' = Rest(t)
           /\ observed' = { o \in ({ p \in observed : p.gen # t.gen \/ p.field # t.field }
                                     \cup { [gen |-> t.gen, field |-> t.field,
                                             width |-> RenderedWidth(CharWidth(t, CharFields(t)))] }) :
                              \E u \in Pending(Rest(t)) :
                                  u.kind = "char" /\ u.gen = o.gen /\ u.field = o.field }
           /\ UNCHANGED << autoHideTimeout, delayedStartTimeout, nextId, boxBottom, logoBottom,
                           logoTransform, shimmer, textOpacity >>

(* lines 207-213: a typewriter's completion callback starts the next field's *)
NextField(field) == IF field = "now-playing-text" THEN "artist-text" ELSE "song-text"

(* Variant: the two placeholders exchanged *)
NextTextSwapped(field, data) ==
    IF field = "now-playing-text" THEN OrDefault(data.artist, DefaultSong)
    ELSE OrDefault(data.song, DefaultArtist)

NextText(field, data) ==
    IF field = "now-playing-text" THEN OrDefault(data.artist, DefaultArtist)
    ELSE OrDefault(data.song, DefaultSong)

FireDone ==
    /\ Due("done")
    /\ LET t == Earliest(timers)
           text == NextText(t.field, t.data)
       IN  /\ Advance(t)
           /\ IF t.field = "song-text"
              THEN /\ timers' = Rest(t)
                   /\ UNCHANGED << fields, nextId >>
              ELSE /\ fields' = [fields EXCEPT ![NextField(t.field)] =
                                     [pass |-> t.gen, spans |-> TypewriterSpans(text)]]
                   /\ timers' = SetTimeouts(Rest(t),
                                    TypewriterTimers(NextField(t.field), text, BaseSpeed,
                                                     t.gen, t.data, nextId))
                   /\ nextId' = nextId + Len(text) + 1
           /\ UNCHANGED << autoHideTimeout, delayedStartTimeout, boxWidth, boxBottom, logoBottom,
                           logoTransform, shimmer, textOpacity, observed >>

(* lines 217-219 *)
FireShimmerClear ==
    /\ Due("shimmerClear")
    /\ LET t == Earliest(timers)
       IN  /\ Advance(t)
           /\ shimmer' = FALSE
           /\ timers' = Rest(t)
           /\ UNCHANGED << autoHideTimeout, delayedStartTimeout, nextId, boxWidth, boxBottom,
                           logoBottom, logoTransform, textOpacity, fields, observed >>

(* lines 223-225: the auto-hide callback calls stop() *)
FireAutoHide ==
    /\ Due("autoHide")
    /\ LET t == Earliest(timers)
       IN  /\ Advance(t)
           /\ StopBody(Rest(t), t.gen)

(* lines 241-244 *)
FireExitCollapse ==
    /\ Due("exitCollapse")
    /\ LET t == Earliest(timers)
       IN  /\ Advance(t)
           /\ boxWidth' = ZeroWidth
           /\ logoTransform' = "scale(1) rotate(0deg)"
           /\ timers' = Rest(t)
           /\ UNCHANGED << autoHideTimeout, delayedStartTimeout, nextId, boxBottom, logoBottom,
                           shimmer, textOpacity, fields, observed >>

(* lines 246-248 *)
FireExitLogoUp ==
    /\ Due("exitLogoUp")
    /\ LET t == Earliest(timers)
       IN  /\ Advance(t)
           /\ logoBottom' = LogoStageBottom
           /\ timers' = Rest(t)
           /\ UNCHANGED << autoHideTimeout, delayedStartTimeout, nextId, boxWidth, boxBottom,
                           logoTransform, shimmer, textOpacity, fields, observed >>

(* lines 250-252 *)
FireExitBoxOff ==
    /\ Due("exitBoxOff")
    /\ LET t == Earliest(timers)
       IN  /\ Advance(t)
           /\ boxBottom' = OffStageBottom
           /\ timers' = Rest(t)
           /\ UNCHANGED << autoHideTimeout, delayedStartTimeout, nextId, boxWidth, logoBottom,
                           logoTransform, shimmer, textOpacity, fields, observed >>

(* lines 254-256 *)
FireExitLogoOff ==
    /\ Due("exitLogoOff")
    /\ LET t == Earliest(timers)
       IN  /\ Advance(t)
           /\ logoBottom' = LogoHiddenBottom
           /\ timers' = Rest(t)
           /\ UNCHANGED << autoHideTimeout, delayedStartTimeout, nextId, boxWidth, boxBottom,
                           logoTransform, shimmer, textOpacity, fields, observed >>

(* Time passes without any timer becoming overdue: while no timer is pending *)
(* nothing distinguishes one instant from the next                          *)
Tick ==
    /\ timers # << >>
    /\ Earliest(timers).rem >= Quantum
    /\ timers' = Elapse(timers, Quantum)
    /\ clock' = clock + Quantum
    /\ UNCHANGED << autoHideTimeout, delayedStartTimeout, nextId, boxWidth, boxBottom, logoBottom,
                    logoTransform, shimmer, textOpacity, fields, glyphPx, history, observed >>

FireTimer ==
    \/ FireEntrance
    \/ FireExpand
    \/ FireReveal
    \/ FireChar
    \/ FireDone
    \/ FireShimmerClear
    \/ FireAutoHide
    \/ FireExitCollapse
    \/ FireExitLogoUp
    \/ FireExitBoxOff
    \/ FireExitLogoOff

-----------------------------------------------------------------------------
(* Any commands at any instants, with short texts *)

Next ==
    \/ \E req \in ShortRequests : Play(req)
    \/ \E req \in ShortRequests : Update(req)
    \/ Stop
    \/ FireTimer
    \/ Tick

Spec == Init /\ [][Next]_vars

(* The event loop runs every timer that becomes due *)
FairSpec == Spec /\ WF_vars(FireTimer)

(* One play or update, with texts of every kind and length, and no further command *)
NextCycle ==
    \/ \E req \in CycleRequests : history = << >> /\ Play(req)
    \/ \E req \in CycleRequests : history = << >> /\ Update(req)
    \/ FireTimer

SpecCycle == Init /\ [][NextCycle]_vars

(* One short play under every measured content width *)
InitSize == Loaded(0..MaxGlyph)

NextSize ==
    \/ \E req \in ShortRequests : history = << >> /\ Play(req)
    \/ FireTimer

SpecSize == InitSize /\ [][NextSize]_vars

(* createTypewriter on its own: lines 129-173, called once on the loaded    *)
(* page for the song element with any text, the empty one included, and a   *)
(* callback that does nothing (as the song's, lines 209-211)                *)
CreateTypewriter(text) ==
    /\ history = << >>
    /\ timers = << >>
    /\ fields["song-text"].pass = 0
    /\ fields' = [fields EXCEPT !["song-text"] = [pass |-> 1, spans |-> TypewriterSpans(text)]]
    /\ timers' = SetTimeouts(timers, TypewriterTimers("song-text", text, BaseSpeed, 1, EmptyData, nextId))
    /\ nextId' = nextId + Len(text) + 1
    /\ clock' = 0
    /\ UNCHANGED << autoHideTimeout, delayedStartTimeout, boxWidth, boxBottom, logoBottom,
                    logoTransform, shimmer, textOpacity, glyphPx, history, observed >>

TypewriterTexts == { Str(n) : n \in 0..MaxShort } \cup { Str(LongThreshold), Str(LongLen) }

NextTypewriter ==
    \/ \E text \in TypewriterTexts : CreateTypewriter(text)
    \/ FireChar
    \/ FireDone

SpecTypewriter == Init /\ [][NextTypewriter]_vars

(* play and update called with or without an argument, at the instants at  *)
(* which a timer has just run                                               *)
AliasRequests == { NoArg, Request(Given(<< "A" >>), Given(<< "B" >>)) }

InitAlias == Loaded({ 60 })

NextAlias ==
    \/ \E req \in AliasRequests : Play(req)
    \/ \E req \in AliasRequests : Update(req)
    \/ Stop
    \/ FireTimer

SpecAlias == InitAlias /\ [][NextAlias]_vars

-----------------------------------------------------------------------------
(* The resting state: box collapsed and off-stage, text container hidden *)
Resting ==
    /\ RenderedWidth(boxWidth) = 0
    /\ boxBottom = OffStageBottom
    /\ textOpacity = 0

Last == history[Len(history)]

FullyRevealed(f) == \A i \in 1..Len(fields[f].spans) : fields[f].spans[i].opacity = 1

(* What a field shows of a text: one span per character, a space as &nbsp; *)
Shows(f, text) ==
    /\ Len(fields[f].spans) = Len(text)
    /\ \A i \in 1..Len(text) :
           fields[f].spans[i].html = (IF text[i] = " " THEN "&nbsp;" ELSE text[i])

(* C1: cancel-before-schedule.  Once play, update or stop has been called,  *)
(* no delayed action registered on behalf of an earlier command is pending: *)
(* every pending timer belongs to the latest command.                       *)
C1_CancelBeforeSchedule ==
    \A t \in Pending(timers) : t.gen = Len(history)

(* The texts a request's cycle reveals *)
ArtistOf(req) == IF req.given /\ req.artist.has /\ req.artist.str # << >> THEN req.artist.str
                 ELSE << "A", "r", "t", "i", "s", "t", " ", "N", "a", "m", "e" >>
SongOf(req) == IF req.given /\ req.song.has /\ req.song.str # << >> THEN req.song.str
               ELSE << "S", "o", "n", "g", " ", "T", "i", "t", "l", "e" >>

RevealPending == \E t \in Pending(timers) : t.kind \in { "entrance", "reveal", "char", "done" }

(* C2: superseding play.  After play(R1) and then play(R2) before the first *)
(* cycle is back at rest, (a) the visible text container never shows R1's   *)
(* artist and song fully revealed, and (b) once every reveal timer has run  *)
(* and the auto-hide is still to come, the fields show R2's artist and song.*)
C2_SupersedingPlay ==
    (/\ Len(history) = 2
     /\ history[1].op = "play"
     /\ history[2].op = "play"
     /\ ~history[2].idle
     /\ history[1].req # history[2].req)
    => /\ ~(/\ textOpacity = 1
            /\ Shows("artist-text", ArtistOf(history[1].req))
            /\ FullyRevealed("artist-text")
            /\ Shows("song-text", SongOf(history[1].req))
            /\ FullyRevealed("song-text"))
       /\ (~RevealPending /\ (\E t \in Pending(timers) : t.kind = "autoHide"))
          => /\ Shows("artist-text", ArtistOf(history[2].req))
             /\ Shows("song-text", SongOf(history[2].req))

ExitKinds == { "exitCollapse", "exitLogoUp", "exitBoxOff", "exitLogoOff" }

ExitPending == \E t \in Pending(timers) : t.kind \in ExitKinds

(* C3: stop() during Entering, Expanding or Revealing (the entrance has run, *)
(* the auto-hide has not), with no further command: the text container is   *)
(* hidden from then on, and once the exit delays have elapsed (the last     *)
(* exit timer, 3500 ms after the stop, has run) the overlay is at rest and  *)
(* stays there.                                                             *)
C3_StopReachesIdle ==
    (/\ Len(history) = 2
     /\ history[1].op = "play"
     /\ history[2].op = "stop"
     /\ history[2].live)
    => /\ textOpacity = 0
       /\ (~ExitPending => Resting)

AllRevealed(req) ==
    /\ Shows("now-playing-text", << "N", "o", "w", " ", "P", "l", "a", "y", "i", "n", "g", ":" >>)
    /\ FullyRevealed("now-playing-text")
    /\ Shows("artist-text", ArtistOf(req))
    /\ FullyRevealed("artist-text")
    /\ Shows("song-text", SongOf(req))
    /\ FullyRevealed("song-text")

(* C4: full cycle.  After a single play and no further command, for texts of *)
(* any length: by the time the auto-hide runs the visible text container    *)
(* shows the label, the artist and the song fully revealed, and when no     *)
(* timer is left the overlay is at rest.                                    *)
C4_FullCycle ==
    /\ Due("autoHide") => (textOpacity = 1 /\ AllRevealed(history[1].req))
    /\ (history # << >> /\ timers = << >>) => Resting

(* A stop called at rest with no timer pending, and only stops since *)
StopChain ==
    \E k \in 1..Len(history) :
        /\ history[k].op = "stop"
        /\ history[k].idle
        /\ history[k].rest
        /\ \A j \in k..Len(history) : history[j].op = "stop"

(* C5: stop() while Idle with no pending timer is a no-op.  Such a stop,    *)
(* any further stop after it, and every delayed action they register leave  *)
(* box width, box position, logo position, logo transform, text container   *)
(* opacity and field contents as they were.                                 *)
C5_StopIdleNoOp ==
    [][StopChain' => Visual' = Visual]_vars

(* C6: synchronous reset.  When play or update returns, from whatever state *)
(* it was called in, the three text fields are empty, the text container is *)
(* hidden, the box width is 0 and the box off-stage, and exactly one        *)
(* entrance timer is pending: the new cycle's, tracked by                   *)
(* delayedStartTimeout and due after the entrance delay.                    *)
C6_SynchronousReset ==
    [][(Len(history') = Len(history) + 1 /\ history'[Len(history')].op = "play")
       => /\ \A f \in FieldIds : fields'[f].spans = << >>
          /\ textOpacity' = 0
          /\ RenderedWidth(boxWidth') = 0
          /\ boxBottom' = -200
          /\ Cardinality({ i \in 1..Len(timers') : timers'[i].kind = "entrance" }) = 1
          /\ \A i \in 1..Len(timers') :
                 timers'[i].kind = "entrance"
                 => /\ timers'[i].gen = Len(history')
                    /\ timers'[i].id = delayedStartTimeout'
                    /\ timers'[i].rem = 1000]_vars

(* play has just returned, called in the middle of an earlier cycle's reveal *)
C6_Witness ==
    /\ Len(history) = 2
    /\ Last.op = "play"
    /\ clock = 0
    /\ Last.live
    /\ ~Last.rest
    /\ \E t \in Pending(timers) : t.kind = "char" /\ t.gen = 1 /\ t.idx > 1
    /\ \A f \in FieldIds : fields[f].spans = << >>
    /\ \E t \in Pending(timers) : t.kind = "entrance" /\ t.gen = 2

(* C7: within one reveal pass the box width seen after each character's    *)
(* callback is never lower than the width seen after the pass's previous    *)
(* character, for every sequence of commands.                               *)
C7_WidthMonotone ==
    [][FireChar
       => \A o \in observed :
              (o.gen = Earliest(timers).gen /\ o.field = Earliest(timers).field)
              => RenderedWidth(boxWidth') >= o.width]_vars

Clamp(x, lo, hi) == IF x < lo THEN lo ELSE IF x > hi THEN hi ELSE x

(* C8: size clamp.  For every measured content width w, the width a         *)
(* character callback computes is clamp(w + 400, 1000, 1600); it replaces   *)
(* the box width exactly when it is larger, and any width the callback      *)
(* writes lies in [1000, 1600].                                             *)
C8_SizeClamp ==
    [][FireChar
       => LET w == ScrollWidth(fields', glyphPx)
              c == Clamp(w + 400, 1000, 1600)
          IN  /\ NewWidth(w) = c
              /\ boxWidth' = IF c > RenderedWidth(boxWidth) THEN Px(c) ELSE boxWidth
              /\ boxWidth' # boxWidth => (boxWidth'.n >= 1000 /\ boxWidth'.n <= 1600)]_vars

(* a character callback has measured a content too wide and written the cap *)
C8_Witness ==
    /\ ScrollWidth(fields, glyphPx) + 400 > 1600
    /\ \E o \in observed : o.width = 1600
    /\ boxWidth = Px(1600)

(* C9: adaptive reveal rate.  A text of at most 100 characters is revealed *)
(* one character every 50 ms, a longer one every 25 ms: character i's       *)
(* timer is set to i times that interval, the completion callback to the    *)
(* length times that interval plus the settle delay.                        *)
C9_AdaptiveRate ==
    \A t \in Pending(timers) :
        LET n == Len(fields[t.field].spans)
            rate == IF n <= 100 THEN 50 ELSE 25
        IN  /\ t.kind = "char" => t.delay = (t.idx - 1) * rate
            /\ t.kind = "done" => t.delay = n * rate + 500

(* the artist had exactly 100 characters, the song has more and is being revealed *)
C9_Witness ==
    /\ Len(fields["artist-text"].spans) = 100
    /\ Len(fields["song-text"].spans) > 100
    /\ \E t \in Pending(timers) : t.kind = "char" /\ t.field = "song-text" /\ t.idx = 2 /\ t.delay = 25

(* C10: defaults.  When the request leaves the artist out (or is left out  *)
(* itself) the artist field reveals "Artist Name", when it leaves the song  *)
(* out the song field reveals "Song Title"; a supplied non-empty artist or  *)
(* song is revealed as given.                                               *)
C10_Defaults ==
    history # << >> =>
        LET req == history[1].req
        IN  /\ fields["artist-text"].pass # 0
               => /\ (~req.given \/ ~req.artist.has)
                     => Shows("artist-text", << "A", "r", "t", "i", "s", "t", " ", "N", "a", "m", "e" >>)
                  /\ (req.given /\ req.artist.has /\ req.artist.str # << >>)
                     => Shows("artist-text", req.artist.str)
            /\ fields["song-text"].pass # 0
               => /\ (~req.given \/ ~req.song.has)
                     => Shows("song-text", << "S", "o", "n", "g", " ", "T", "i", "t", "l", "e" >>)
                  /\ (req.given /\ req.song.has /\ req.song.str # << >>)
                     => Shows("song-text", req.song.str)

(* artist left out and song supplied: both fields are fully revealed *)
C10_Witness ==
    /\ history # << >>
    /\ history[1].req.given
    /\ ~history[1].req.artist.has
    /\ history[1].req.song.has
    /\ history[1].req.song.str # << >>
    /\ fields["artist-text"].pass # 0
    /\ fields["song-text"].pass # 0
    /\ FullyRevealed("artist-text")
    /\ FullyRevealed("song-text")
    /\ textOpacity = 1

(* C11: update is an alias of play.  Whatever the state and the request,    *)
(* a call of update(request) changes the page and the pending timers        *)
(* exactly as play(request) does in the same state: the same synchronous    *)
(* reset, the same tracked timers cancelled, the same entrance timer        *)
(* registered with the same data.                                           *)
C11_UpdateIsPlay ==
    [][(Len(history') = Len(history) + 1 /\ history'[Len(history')].alias)
       => PlayBody(history'[Len(history')].req)]_vars

(* update() has just returned, called without an argument while an earlier  *)
(* cycle was between its entrance and its auto-hide, its reveal under way   *)
C11_Witness ==
    /\ Len(history) = 2
    /\ Last.alias
    /\ ~Last.req.given
    /\ clock = 0
    /\ Last.live
    /\ \E t \in Pending(timers) : t.kind = "char" /\ t.gen = 1
    /\ \E t \in Pending(timers) : t.kind = "entrance" /\ t.gen = 2 /\ t.data = EmptyData

Waiting(kinds) == \E t \in Pending(timers) : t.kind \in kinds

(* C12: phase order.  In a cycle no command interrupts, the entrance comes  *)
(* before everything else, the expansion before the reveal, and the exit    *)
(* (started by the auto-hide) only once the reveal is over: while an exit   *)
(* timer is pending no reveal, character or completion timer is, and the    *)
(* label, the artist and the song are fully revealed, whatever their        *)
(* lengths.                                                                 *)
C12_PhaseOrder ==
    history # << >> =>
        /\ Waiting({ "entrance" }) => \A t \in Pending(timers) : t.kind = "entrance"
        /\ Waiting({ "expand" }) => Waiting({ "reveal" })
        /\ Waiting({ "reveal", "char", "done" }) => (Waiting({ "autoHide" }) /\ ~ExitPending)
        /\ ExitPending => AllRevealed(history[1].req)

(* The latest command is a play or update whose entrance has run and whose *)
(* own auto-hide has not                                                    *)
Holding ==
    /\ history # << >>
    /\ Last.op = "play"
    /\ \E t \in Pending(timers) : t.kind = "autoHide" /\ t.gen = Len(history)

(* C13: no premature hide by a stale exit.  From a cycle's entrance until   *)
(* its own auto-hide or a later command, whatever came before the play, the *)
(* box is on-stage, and once the cycle's expansion has run its width is not *)
(* 0.                                                                       *)
C13_NoStaleHide ==
    Holding =>
        /\ boxBottom = OnStageBottom
        /\ (\A t \in Pending(timers) : ~(t.kind = "expand" /\ t.gen = Len(history)))
           => RenderedWidth(boxWidth) # 0

AnyVisible(f) == \E i \in 1..Len(fields[f].spans) : fields[f].spans[i].opacity = 1

Started(f) == fields[f].pass # 0

PreviousField(f) == IF f = "song-text" THEN "artist-text" ELSE "now-playing-text"

(* C14: sequential fields.  In a reveal, the artist's typewriter is started *)
(* (its characters placed) only once the label's completion callback has    *)
(* run, the song's only once the artist's has: by then no character or      *)
(* completion timer of the previous field is pending, and every character   *)
(* of the previous field is visible before any of the next one is.          *)
C14_SequentialFields ==
    \A f \in { "artist-text", "song-text" } :
        Started(f) =>
            /\ Started(PreviousField(f))
            /\ \A t \in Pending(timers) :
                   (t.gen = fields[f].pass /\ t.kind \in { "char", "done" }) => t.field # PreviousField(f)
            /\ fields[PreviousField(f)].pass = fields[f].pass => FullyRevealed(PreviousField(f))

(* a reveal in the middle of a long artist: the label is all visible, the   *)
(* artist in part, the song not started                                      *)
C14_Witness ==
    /\ Len(fields["artist-text"].spans) = 100
    /\ AnyVisible("artist-text")
    /\ ~FullyRevealed("artist-text")
    /\ FullyRevealed("now-playing-text")
    /\ Len(fields["now-playing-text"].spans) = 12
    /\ ~Started("song-text")

ExitWaiting(g, kind) == \E t \in Pending(timers) : t.gen = g /\ t.kind = kind

ExitDelay(kind) ==
    IF kind = "exitCollapse" THEN 500
    ELSE IF kind = "exitLogoUp" THEN 1200
    ELSE IF kind = "exitLogoOff" THEN 1800
    ELSE 3500

(* The exit timers of one stop run in the order collapse, logo up, logo     *)
(* off, box off, each at its own delay after the stop                       *)
ExitOrdered ==
    /\ \A g \in 1..Len(history) :
           /\ ExitWaiting(g, "exitCollapse") => ExitWaiting(g, "exitLogoUp")
           /\ ExitWaiting(g, "exitLogoUp") => ExitWaiting(g, "exitLogoOff")
           /\ ExitWaiting(g, "exitLogoOff") => ExitWaiting(g, "exitBoxOff")
    /\ \A t \in Pending(timers) :
           (t.kind \in ExitKinds /\ t.gen = Len(history))
           => /\ t.delay = ExitDelay(t.kind)
              /\ clock + t.rem = (IF Last.op = "stop" THEN 0 ELSE 13000) + t.delay

(* C15: exit sequence order.  A stop, called or run by the auto-hide, hides *)
(* the text container before it returns; its four delayed actions then run  *)
(* by delay and not in the order they are written in: the collapse (box     *)
(* width 0, logo transform reset) 500 ms after the stop, the logo moves     *)
(* after 1200 and 1800 ms, and the box leaves the stage after 3500 ms, last *)
(* of the four.                                                             *)
C15_ExitOrder ==
    /\ []ExitOrdered
    /\ [][/\ (\E t \in Pending(timers') : t.kind \in ExitKinds /\ t.id >= nextId) => textOpacity' = 0
          /\ FireExitCollapse => (RenderedWidth(boxWidth') = 0 /\ logoTransform' = "scale(1) rotate(0deg)")
          /\ FireExitLogoUp => logoBottom' = -80
          /\ FireExitLogoOff => logoBottom' = -350
          /\ FireExitBoxOff
             => /\ boxBottom' = -200
                /\ \A t \in Pending(timers') : t.kind \in ExitKinds => t.gen # Earliest(timers).gen]_vars

(* a stop called during a cycle, 1800 ms ago: the box is collapsed, the     *)
(* logo gone, and only the box's move off-stage is still to come            *)
C15_Witness ==
    /\ Len(history) = 2
    /\ Last.op = "stop"
    /\ Last.live
    /\ clock = 1800
    /\ boxBottom = 40
    /\ logoBottom = -350
    /\ ExitWaiting(2, "exitBoxOff")
    /\ \A t \in Pending(timers) : (t.kind \in ExitKinds /\ t.gen = 2) => t.kind = "exitBoxOff"

Rate(n) == IF n > 100 THEN 25 ELSE 50

(* While a pass is under way: the characters are visible in index order,    *)
(* each character's timer is due (index * rate) after the start, and one    *)
(* completion timer is pending, due at length * rate + 500                  *)
OnSchedule ==
    Started("song-text") =>
        LET spans == fields["song-text"].spans
            n == Len(spans)
        IN  /\ \A i \in 1..n : \A j \in 1..n : (j < i /\ spans[i].opacity = 1) => spans[j].opacity = 1
            /\ \A t \in Pending(timers) :
                   /\ t.kind \in { "char", "done" }
                   /\ t.kind = "char" => (t.idx \in 1..n /\ clock + t.rem = (t.idx - 1) * Rate(n))
                   /\ t.kind = "done" => clock + t.rem = n * Rate(n) + 500
            /\ timers # << >> => Cardinality({ i \in 1..Len(timers) : timers[i].kind = "done" }) = 1
            /\ n = 0 => \A t \in Pending(timers) : t.kind # "char"

(* C16: the text revealer's schedule.  For a text of n characters revealed  *)
(* at rate r, character i (from 0) becomes visible i * r after the start,   *)
(* so in index order; the completion callback runs once, at n * r + 500,    *)
(* after the last character is visible and with nothing left to run; for    *)
(* the empty text no character timer is set and the callback runs at 500.   *)
C16_RevealerSchedule ==
    /\ []OnSchedule
    /\ [][/\ FireChar
             => /\ clock' = (Earliest(timers).idx - 1) * Rate(Len(fields["song-text"].spans))
                /\ fields'["song-text"].spans[Earliest(timers).idx].opacity = 1
          /\ FireDone
             => /\ clock' = Len(fields["song-text"].spans) * Rate(Len(fields["song-text"].spans)) + 500
                /\ FullyRevealed("song-text")
                /\ timers' = << >>]_vars

(* the empty text: no span, no character timer, the callback has run at 500 *)
C16_Witness ==
    /\ Started("song-text")
    /\ fields["song-text"].spans = << >>
    /\ timers = << >>
    /\ clock = 500

PendingOf(kind) == { t \in Pending(timers) : t.kind = kind }

(* C17: the tracked timers.  In every reachable state at most one entrance  *)
(* timer and at most one auto-hide timer is pending, never both at once,    *)
(* and a pending one is the one its handle variable refers to.              *)
C17_TrackedTimers ==
    /\ Cardinality(PendingOf("entrance")) <= 1
    /\ Cardinality(PendingOf("autoHide")) <= 1
    /\ PendingOf("entrance") = {} \/ PendingOf("autoHide") = {}
    /\ \A t \in PendingOf("entrance") : t.id = delayedStartTimeout
    /\ \A t \in PendingOf("autoHide") : t.id = autoHideTimeout

(* a second cycle's auto-hide is pending; the play that started the cycle   *)
(* was called while the first cycle's auto-hide was                          *)
C17_Witness ==
    /\ Len(history) = 2
    /\ history[1].op = "play"
    /\ Last.op = "play"
    /\ Last.live
    /\ \E t \in PendingOf("autoHide") : t.gen = 2 /\ t.id = autoHideTimeout
    /\ \E t \in Pending(timers) : t.gen = 1

AutoHideOfLatest ==
    \A t \in PendingOf("autoHide") :
        /\ t.gen = Len(history)
        /\ Last.op = "play"
        /\ t.delay = 12000
        /\ clock + t.rem = 13000

(* C18: the auto-hide belongs to the latest cycle.  A pending auto-hide     *)
(* timer was armed by the cycle of the latest command, a play or update,    *)
(* and is due 13000 ms after that call (12000 after the cycle's entrance);  *)
(* it runs only then, so the auto-hide of a superseded or stopped cycle     *)
(* never runs.                                                              *)
C18_AutoHideLatest ==
    /\ []AutoHideOfLatest
    /\ [][FireAutoHide
          => /\ Earliest(timers).gen = Len(history)
             /\ Last.op = "play"
             /\ clock' = 13000]_vars

(* the auto-hide of a second cycle has just run, 13000 ms after the play    *)
(* that superseded a first cycle whose own auto-hide was armed               *)
C18_Witness ==
    /\ Len(history) = 2
    /\ history[1].op = "play"
    /\ Last.op = "play"
    /\ Last.live
    /\ clock = 13000
    /\ PendingOf("autoHide") = {}
    /\ \E t \in PendingOf("exitCollapse") : t.gen = 2 /\ t.rem = 500

(* C19: the box width's domain.  Once a first command has been called, in  *)
(* every state of every interleaving of commands and timer callbacks, the   *)
(* box is laid out 0 wide or between 1000 and 1600 px wide.                 *)
C19_WidthDomain ==
    history # << >> =>
        \/ RenderedWidth(boxWidth) = 0
        \/ (RenderedWidth(boxWidth) >= 1000 /\ RenderedWidth(boxWidth) <= 1600)

(* after a second command, a play, a timer left over from the first cycle  *)
(* has written the lower limit into the box the play had collapsed          *)
C19_Witness ==
    /\ Len(history) = 2
    /\ Last.op = "play"
    /\ boxBottom = -200
    /\ \A f \in FieldIds : fields[f].spans = << >>
    /\ boxWidth = Px(1000)

SuppliedEmpty(opt) == opt.has /\ opt.str = << >>

SuppliedBlank(opt) == opt.has /\ opt.str = << " " >>

(* C20: empty-string coercion.  An artist or song supplied as the empty     *)
(* string is revealed as the placeholder, as an omitted one is, so the      *)
(* artist and song passes never run on zero characters; one supplied as a   *)
(* single space is revealed as given, one non-breaking space.               *)
C20_EmptyCoercion ==
    history # << >> =>
        LET req == history[1].req
        IN  /\ Started("artist-text")
               => /\ fields["artist-text"].spans # << >>
                  /\ SuppliedEmpty(req.artist)
                     => Shows("artist-text", << "A", "r", "t", "i", "s", "t", " ", "N", "a", "m", "e" >>)
                  /\ SuppliedBlank(req.artist)
                     => (Len(fields["artist-text"].spans) = 1 /\ fields["artist-text"].spans[1].html = "&nbsp;")
            /\ Started("song-text")
               => /\ fields["song-text"].spans # << >>
                  /\ SuppliedEmpty(req.song)
                     => Shows("song-text", << "S", "o", "n", "g", " ", "T", "i", "t", "l", "e" >>)
                  /\ SuppliedBlank(req.song)
                     => (Len(fields["song-text"].spans) = 1 /\ fields["song-text"].spans[1].html = "&nbsp;")

(* update called with an empty artist and a blank song: the placeholder and *)
(* the space are both fully revealed                                         *)
C20_Witness ==
    /\ history # << >>
    /\ Last.alias
    /\ SuppliedEmpty(history[1].req.artist)
    /\ SuppliedBlank(history[1].req.song)
    /\ Len(fields["artist-text"].spans) = 11
    /\ FullyRevealed("artist-text")
    /\ Started("song-text")
    /\ FullyRevealed("song-text")
    /\ textOpacity = 1

====
